---- MODULE Spec2Model ----
(***************************************************************************)
(* Model of OWSaveExplorer: the GameSave model (gamesave.py) and the       *)
(* editable tree over it (widgets/gamesave.py).  The log-fact part of the  *)
(* tree carries the reveal-order renumbering of submit_edit and the        *)
(* display ordering of action_sort.                                        *)
(***************************************************************************)
EXTENDS Integers, Sequences, FiniteSets, TLC

(* ------------------------------ bounds --------------------------------- *)
\* number of fact ids in the static rumors list (strings.py)
NumFacts == 2
\* largest reveal order an edit may request in the model
MaxOrder == 3
\* longest newlyRevealedFactIDs list the model lets grow
MaxNewly == 3
\* how far below -1 the integers handed to submit_edit and the edit box go
MaxBelow == 2

(* --------------------------- static data ------------------------------- *)
\* self.selected = None: no node highlighted (fact ids start at 1)
NoNode == 0

\* fact ids, in the order of the rumors list; ids compare as the strings do
rumors == [i \in 1..NumFacts |-> i]

Rumors == {rumors[i] : i \in 1..NumFacts}

\* ShipLogFactSave(id_) with the constructor's defaults
ShipLogFactSave(id_) ==
  [id |-> id_, revealOrder |-> -1, read |-> FALSE, newlyRevealed |-> FALSE]

\* persistent_conditions: the static list of condition names (strings.py)
persistent_conditions == <<"CONDITION_A", "CONDITION_B">>

Conditions == {persistent_conditions[i] : i \in 1..Len(persistent_conditions)}

\* FrequencyEnum: codes 0..6; FrequencyEnum._ is the base frequency
NumFrequencies == 7

FrequencyEnum == 0..(NumFrequencies - 1)

\* SignalEnum: the defined signal codes
SignalEnum ==
  (10..16) \cup (20..25) \cup (30..32) \cup (40..49) \cup (60..62) \cup {100, 101}

\* DeathTypeEnum: DEFAULT = 0 .. CRUSHED_BY_ELEVATOR = 14
MaxDeathType == 14

\* DeathTypeEnum(n) and StartupPopupsFlag(n): the enumeration member of a code
DeathTypeEnum(n) == [enum |-> "DeathTypeEnum", value |-> n]

StartupPopupsFlag(n) == [enum |-> "StartupPopupsFlag", value |-> n]

\* int(member)
IntOf(member) == member.value

\* Tristate(value) for the three accepted values
Tristate(value) == [tristate |-> value]

\* str(int(signal)): the JSON object key of a signal code, and int(k)
StrOf(n) == [str |-> n]

IntOfStr(k) == k.str

(* --------------------------- Python values ----------------------------- *)
\* the strings handed to the Tristate constructor: "", "True", "None"
NumSampleStrings == 3

\* a Python object: its type, its value (numbers as they compare: True is
\* 1, False is 0; a string by its index in the samples) and, for a Tristate,
\* the type of the object it holds
PyNone == [py |-> "NoneType", v |-> 0, inner |-> ""]

PyBool(b) == [py |-> "bool", v |-> IF b THEN 1 ELSE 0, inner |-> ""]

PyInt(n) == [py |-> "int", v |-> n, inner |-> ""]

PyStr(i) == [py |-> "str", v |-> i, inner |-> ""]

PyTristate(x) == [py |-> "Tristate", v |-> x.v, inner |-> x.py]

\* self.value of a Tristate object
ValueOf(t) == [py |-> t.inner, v |-> t.v, inner |-> ""]

\* == between objects that are not Tristates: bool is an int, None equals
\* None only, a string equals the same string only
BuiltinEq(a, b) ==
  \/ a.py \in {"bool", "int"} /\ b.py \in {"bool", "int"} /\ a.v = b.v
  \/ a.py = b.py /\ a.py \in {"NoneType", "str"} /\ a.v = b.v

\* a == b with Tristate.__eq__: a Tristate compares by the value it holds
PyEq(a, b) ==
  BuiltinEq(IF a.py = "Tristate" THEN ValueOf(a) ELSE a,
            IF b.py = "Tristate" THEN ValueOf(b) ELSE b)

\* value in (True, False, None)
InAccepted(value) ==
  \E e \in {PyBool(TRUE), PyBool(FALSE), PyNone} : PyEq(e, value)

\* Tristate.__init__: the exception it raises on value, "none" when the
\* object is created
Tristate_init(value) == IF InAccepted(value) THEN "none" ELSE "ValueError"

\* a __bool__ that answers for true and false and raises for unknown only
Tristate_bool_known(self) == IF self.tristate = "None" THEN "TypeError" ELSE "none"

\* Tristate.__bool__: the exception it raises
Tristate_bool(self) == "TypeError"

(* ------------------------------ GameSave ------------------------------- *)
\* GameSave.__init__
GameSave ==
  [loopCount |-> 1,
   knownFrequencies |-> [f \in FrequencyEnum |-> f = 0],
   knownSignals |-> [g \in SignalEnum |-> FALSE],
   dictConditions |-> [c \in {} |-> Tristate("None")],
   shipLogFactSaves |-> [k \in Rumors |-> ShipLogFactSave(k)],
   newlyRevealedFactIDs |-> <<>>,
   lastDeathType |-> DeathTypeEnum(0),
   burnedMarshmallowEaten |-> 0,
   fullTimeloops |-> 0,
   perfectMarshmallowsEaten |-> 0,
   warpedToTheEye |-> FALSE,
   secondsRemainingOnWarp |-> 0,
   loopCountOnParadox |-> 0,
   shownPopups |-> StartupPopupsFlag(0),
   version |-> "NONE",
   ps5Activity_canResumeExpedition |-> FALSE,
   ps5Activity_availableShipLogCards |-> <<>>,
   didRunInitGammaSetting |-> FALSE]

\* ShipLogFactSave.from_dict and dict(ShipLogFactSave)
from_dict(data) ==
  [id |-> data.id, revealOrder |-> data.revealOrder, read |-> data.read,
   newlyRevealed |-> data.newlyRevealed]

\* .get(condition, False): a missing condition comes out false
GetOrFalse(d, key) == IF key \in DOMAIN d THEN d[key] ELSE "False"

\* data['dictConditions'].get(condition)
Get(d, key) == IF key \in DOMAIN d THEN d[key] ELSE "None"

\* GameSave.from_json on the parsed document data
from_json(data) ==
  [loopCount |-> data.loopCount,
   knownFrequencies |->
     [f \in FrequencyEnum |->
        IF f + 1 <= Len(data.knownFrequencies)
        THEN data.knownFrequencies[f + 1] ELSE GameSave.knownFrequencies[f]],
   knownSignals |->
     [g \in SignalEnum |->
        IF \E k \in DOMAIN data.knownSignals : IntOfStr(k) = g
        THEN data.knownSignals[CHOOSE k \in DOMAIN data.knownSignals : IntOfStr(k) = g]
        ELSE GameSave.knownSignals[g]],
   dictConditions |->
     [c \in Conditions |-> Tristate(Get(data.dictConditions, c))],
   shipLogFactSaves |->
     [k \in Rumors |->
        IF k \in DOMAIN data.shipLogFactSaves
        THEN from_dict(data.shipLogFactSaves[k]) ELSE GameSave.shipLogFactSaves[k]],
   newlyRevealedFactIDs |-> data.newlyRevealedFactIDs,
   lastDeathType |-> DeathTypeEnum(data.lastDeathType),
   burnedMarshmallowEaten |-> data.burnedMarshmallowEaten,
   fullTimeloops |-> data.fullTimeloops,
   perfectMarshmallowsEaten |-> data.perfectMarshmallowsEaten,
   warpedToTheEye |-> data.warpedToTheEye,
   secondsRemainingOnWarp |-> data.secondsRemainingOnWarp,
   loopCountOnParadox |-> data.loopCountOnParadox,
   shownPopups |-> StartupPopupsFlag(data.shownPopups),
   version |-> data.version,
   ps5Activity_canResumeExpedition |-> data.ps5Activity_canResumeExpedition,
   ps5Activity_availableShipLogCards |-> data.ps5Activity_availableShipLogCards,
   didRunInitGammaSetting |-> data.didRunInitGammaSetting]

\* the document keys in the order from_json reads them
DocumentKeys ==
  <<"loopCount", "knownFrequencies", "knownSignals", "dictConditions",
    "shipLogFactSaves", "newlyRevealedFactIDs", "lastDeathType",
    "burnedMarshmallowEaten", "fullTimeloops", "perfectMarshmallowsEaten",
    "warpedToTheEye", "secondsRemainingOnWarp", "loopCountOnParadox",
    "shownPopups", "version", "ps5Activity_canResumeExpedition",
    "ps5Activity_availableShipLogCards", "didRunInitGammaSetting">>

\* a death type that is "known" whenever it is not negative
DeathTypeDefinedFrom0(n) == n >= 0

\* DeathTypeEnum(n) finds a member
DeathTypeDefined(n) == n \in 0..MaxDeathType

\* SignalEnum(n) finds a member
SignalDefined(n) == n \in SignalEnum

\* FrequencyEnum(n) finds a member
FrequencyDefined(n) == n \in FrequencyEnum

\* the enum lookups from_json makes on the value v of key: TRUE when one of
\* them raises ValueError
LookupRaises(key, v) ==
  CASE key = "knownFrequencies" ->
         \E n \in 1..Len(v) : ~FrequencyDefined(n - 1)
    [] key = "knownSignals" ->
         \E k \in DOMAIN v : ~SignalDefined(IntOfStr(k))
    [] key = "lastDeathType" -> ~DeathTypeDefined(v)
    [] OTHER -> FALSE

RECURSIVE FirstError(_, _)
\* the exception of the first statement of from_json that raises on the
\* parsed document, "none" when all of them pass
FirstError(data, keys) ==
  IF keys = <<>> THEN "none"
  ELSE IF Head(keys) \notin DOMAIN data THEN "KeyError"
  ELSE IF LookupRaises(Head(keys), data[Head(keys)]) THEN "ValueError"
  ELSE FirstError(data, Tail(keys))

\* the text of a file that loads() cannot parse
Malformed == [malformed |-> TRUE]

\* the exception GameSave.from_json raises on a file content, or "none"
from_json_raises(content) ==
  IF content = Malformed THEN "JSONDecodeError"
  ELSE FirstError(content, DocumentKeys)

\* "if v.value:" in place of "is not None": false conditions are dropped too
EmitsConditionTruthy(v) == v.tristate = "True"

\* to_json keeps a condition when its value is not None
EmitsCondition(v) == v.tristate # "None"

\* GameSave.to_json: the document data handed to dumps
to_json(self) ==
  [loopCount |-> self.loopCount,
   knownFrequencies |-> [n \in 1..NumFrequencies |-> self.knownFrequencies[n - 1]],
   knownSignals |->
     [k \in {StrOf(g) : g \in DOMAIN self.knownSignals} |->
        self.knownSignals[IntOfStr(k)]],
   dictConditions |->
     [c \in {d \in DOMAIN self.dictConditions :
               EmitsCondition(self.dictConditions[d])} |->
        self.dictConditions[c].tristate],
   shipLogFactSaves |->
     [k \in DOMAIN self.shipLogFactSaves |-> self.shipLogFactSaves[k]],
   newlyRevealedFactIDs |-> self.newlyRevealedFactIDs,
   lastDeathType |-> IntOf(self.lastDeathType),
   burnedMarshmallowEaten |-> self.burnedMarshmallowEaten,
   fullTimeloops |-> self.fullTimeloops,
   perfectMarshmallowsEaten |-> self.perfectMarshmallowsEaten,
   warpedToTheEye |-> self.warpedToTheEye,
   secondsRemainingOnWarp |-> self.secondsRemainingOnWarp,
   loopCountOnParadox |-> self.loopCountOnParadox,
   shownPopups |-> IntOf(self.shownPopups),
   version |-> self.version,
   ps5Activity_canResumeExpedition |-> self.ps5Activity_canResumeExpedition,
   ps5Activity_availableShipLogCards |-> self.ps5Activity_availableShipLogCards,
   didRunInitGammaSetting |-> self.didRunInitGammaSetting]

(* ------------------------------ state ---------------------------------- *)
VARIABLES
  facts,                 \* the ShipLogFactSave objects, by dict key; shared
                         \* by gamesave.shipLogFactSaves and the tree nodes
  children,              \* shipLogFactSaves.children: display order of nodes
  sorted_by,             \* GameSaveTree.sorted_by
  selected,              \* highlighted fact node, or NoNode
  newlyRevealedFactIDs,  \* value of the newlyRevealedFactIDs entry
  editbox,               \* "hidden" or "open" (the #editbox Input)
  gamesave,              \* self.gamesave without the two shared objects above
  entries,               \* values of the other tree entries, by field
  file,                  \* parsed content of the save file, or NoFile
  selectedEntry,         \* self.selected when it is not a fact node: the
                         \* highlighted entry, or NoEntry
  outcome,               \* how the last load or constructor call ended
  pending,               \* the file operation waiting for its picker:
                         \* "open", "save" or "none"
  optionlist             \* app.optionlist: shown or not, the cursor index
                         \* and the indexes of the options that are set

vars == <<facts, children, sorted_by, selected, newlyRevealedFactIDs, editbox,
          gamesave, entries, file, selectedEntry, outcome, pending, optionlist>>

\* what the log-fact actions leave alone
other == <<gamesave, entries, file, selectedEntry, outcome, pending, optionlist>>

(* ------------------------- sequence helpers ---------------------------- *)
Max(S) == CHOOSE m \in S : \A x \in S : x <= m

RECURSIVE Reverse(_)
Reverse(s) == IF s = <<>> THEN <<>> ELSE Reverse(Tail(s)) \o <<Head(s)>>

\* list.remove(e) in place of the comprehension: only the first e goes
WithoutFirst(s, e) ==
  IF \E i \in 1..Len(s) : s[i] = e
  THEN LET i == CHOOSE j \in 1..Len(s) : s[j] = e /\ \A h \in 1..(j - 1) : s[h] # e
       IN  SubSeq(s, 1, i - 1) \o SubSeq(s, i + 1, Len(s))
  ELSE s

\* [x for x in s if x != e]
RECURSIVE Without(_, _)
Without(s, e) ==
  IF s = <<>> THEN <<>>
  ELSE IF Head(s) = e THEN Without(Tail(s), e)
       ELSE <<Head(s)>> \o Without(Tail(s), e)

\* insert x into the ascending sequence s after every element whose key is
\* not greater (stable)
RECURSIVE InsertAsc(_, _, _)
InsertAsc(s, x, key) ==
  IF s = <<>> THEN <<x>>
  ELSE IF key[Head(s)] <= key[x] THEN <<Head(s)>> \o InsertAsc(Tail(s), x, key)
       ELSE <<x>> \o s

\* sorted(s, key=...): stable, ascending
RECURSIVE SortedAsc(_, _)
SortedAsc(s, key) ==
  IF s = <<>> THEN <<>>
  ELSE InsertAsc(SortedAsc(SubSeq(s, 1, Len(s) - 1), key), s[Len(s)], key)

\* an insertion that keeps one node per key: x is dropped when its key is
\* already in s
InsertDescUnique(s, x, key) ==
  IF \E i \in 1..Len(s) : key[s[i]] = key[x] THEN s
  ELSE LET before == {i \in 1..Len(s) : key[s[i]] > key[x]}
       IN  SubSeq(s, 1, Cardinality(before)) \o <<x>>
             \o SubSeq(s, Cardinality(before) + 1, Len(s))

\* insert x into the descending sequence s after every element whose key is
\* not smaller (stable)
RECURSIVE InsertDesc(_, _, _)
InsertDesc(s, x, key) ==
  IF s = <<>> THEN <<x>>
  ELSE IF key[Head(s)] >= key[x] THEN <<Head(s)>> \o InsertDesc(Tail(s), x, key)
       ELSE <<x>> \o s

\* list.sort(key=..., reverse=True): descending, equal keys keep their order
RECURSIVE SortedDesc(_, _)
SortedDesc(s, key) ==
  IF s = <<>> THEN <<>>
  ELSE InsertDesc(SortedDesc(SubSeq(s, 1, Len(s) - 1), key), s[Len(s)], key)

(* ---------------------------- action_sort ------------------------------ *)
\* the sort key of action_sort for each node
SortKey(fs, sort_by) ==
  [k \in DOMAIN fs |-> IF sort_by = "reveal" THEN fs[k].revealOrder ELSE fs[k].id]

\* children.sort(key, reverse=True), then every node inserted at index 0
SortedChildren(ch, fs, sort_by) == Reverse(SortedDesc(ch, SortKey(fs, sort_by)))

(* ---------------------------- submit_edit ------------------------------ *)
\* the renumbering loop of submit_edit over the nodes sorted by revealOrder
RECURSIVE RenumberLoop(_, _, _, _, _, _)
RenumberLoop(order, i, fs, c, old_value, new_value) ==
  IF i > Len(order) THEN fs
  ELSE LET k == order[i] IN
       IF fs[k].revealOrder = -1 \/ fs[k].revealOrder = old_value
       THEN RenumberLoop(order, i + 1, fs, c, old_value, new_value)
       ELSE LET c1 == IF c = new_value THEN c + 1 ELSE c IN
            RenumberLoop(order, i + 1, [fs EXCEPT ![k].revealOrder = c1],
                         c1 + 1, old_value, new_value)

\* one past the number of facts, whatever their orders
MaxNextByCount(fs) == Cardinality(DOMAIN fs)

\* max(x.data.value.revealOrder + 1 for x in self.shipLogFactSaves.children)
MaxNext(fs) == Max({fs[k].revealOrder + 1 : k \in DOMAIN fs})

\* the upper limit applied to the requested order after the loop
ClampOrder(new_value, fs) ==
  IF new_value <= MaxNext(fs) THEN new_value ELSE MaxNext(fs)

\* the fact objects after submit_edit(new_value) on the selected log fact
SubmitFacts(fs, ch, sel, new_value) ==
  LET old_value == fs[sel].revealOrder
      order     == SortedAsc(ch, SortKey(fs, "reveal"))
      looped    == RenumberLoop(order, 1, fs, 0, old_value, new_value)
  IN  [looped EXCEPT ![sel].revealOrder = ClampOrder(new_value, looped)]

\* submit_edit on a log-fact entry: renumber, store, re-sort, hide the box
submit_edit(new_value) ==
  /\ facts' = SubmitFacts(facts, children, selected, new_value)
  /\ children' = SortedChildren(children, facts', sorted_by)
  /\ editbox' = "hidden"

\* the validator of a log-fact entry built in set_gamesave
RevealOrderValid(x, fs) == -1 <= x /\ x <= MaxNext(fs)

(* ------------------------ tree <-> GameSave ---------------------------- *)
\* the two fields of a GameSave whose objects the tree shares
SharedFields == {"shipLogFactSaves", "newlyRevealedFactIDs"}

\* a GameSave without its shared objects, and put together again
Unshared(gs) == [f \in DOMAIN gs \ SharedFields |-> gs[f]]

Whole(gs, fs, ids) ==
  gs @@ [shipLogFactSaves |-> fs, newlyRevealedFactIDs |-> ids]

\* nodes added by set_gamesave: sorted(items, key=revealOrder) over the dict
NodesFor(fs) == SortedAsc(rumors, SortKey(fs, "reveal"))

\* entry values built by GameSaveTree.__init__ before set_gamesave
InitEntries ==
  [f \in DOMAIN GameSave \ SharedFields |->
     CASE f = "loopCount" -> 0
       [] f = "knownFrequencies" -> [c \in FrequencyEnum |-> FALSE]
       [] f = "dictConditions" -> [c \in Conditions |-> Tristate("None")]
       [] f = "version" -> ""
       [] OTHER -> GameSave[f]]

\* a projection that leaves the loopCount entry as it was
EntriesForKeepingLoopCount(gs, old) ==
  [f \in DOMAIN old |->
     CASE f = "dictConditions" ->
            [c \in Conditions |->
               IF c \in DOMAIN gs.dictConditions
               THEN gs.dictConditions[c] ELSE old.dictConditions[c]]
       [] f = "loopCount" -> old[f]
       [] OTHER -> gs[f]]

\* set_gamesave: the entry values after projecting gs into the tree
EntriesFor(gs, old) ==
  [f \in DOMAIN old |->
     IF f = "dictConditions"
     THEN [c \in Conditions |->
             IF c \in DOMAIN gs.dictConditions
             THEN gs.dictConditions[c] ELSE old.dictConditions[c]]
     ELSE gs[f]]

\* update_gamesave: the GameSave fields after flattening the entries back
update_gamesave(gs, ent) ==
  [f \in DOMAIN gs |->
     CASE f = "dictConditions" ->
            [c \in DOMAIN gs.dictConditions |-> ent.dictConditions[c]]
       [] f = "ps5Activity_availableShipLogCards" -> gs[f]
       [] OTHER -> ent[f]]

(* ------------------------------ Init ----------------------------------- *)
\* no save file on disk
NoFile == [none |-> TRUE]

\* a tree entry outside the log facts: its field and, inside a map, its key
EntryNode(field, idx) == [field |-> field, idx |-> idx]

\* self.selected is None or a fact node
NoEntry == EntryNode("none", 0)

\* OptionList.__init__: hidden, without options
NoOptions == [shown |-> FALSE, index |-> 0, marked |-> {}]

\* nothing was loaded or constructed yet
NoOutcome == [op |-> "none", arg |-> NoFile, raised |-> "none"]

(* --------------------------- entry nodes ------------------------------- *)
\* the integer entries the model highlights
IntEntryNodes ==
  {EntryNode(f, 0) : f \in {"loopCount", "fullTimeloops", "perfectMarshmallowsEaten"}}

\* the tri-state and boolean entries the model highlights
ToggleEntryNodes ==
  {EntryNode("dictConditions", i) : i \in 1..Len(persistent_conditions)}
    \cup {EntryNode("knownFrequencies", f) : f \in 0..1}
    \cup {EntryNode("warpedToTheEye", 0)}

\* Entry.type (base_type) of an entry node
EntryType(p) ==
  CASE p.field = "dictConditions" -> "Tristate"
    [] p.field \in {"knownFrequencies", "knownSignals", "warpedToTheEye",
                    "ps5Activity_canResumeExpedition", "didRunInitGammaSetting"}
         -> "bool"
    [] p.field \in {"loopCount", "burnedMarshmallowEaten", "fullTimeloops",
                    "perfectMarshmallowsEaten", "loopCountOnParadox"} -> "int"
    [] p.field = "lastDeathType" -> "DeathTypeEnum"
    [] OTHER -> "other"

\* the key of an entry inside its map
EntryKey(p) ==
  IF p.field = "dictConditions" THEN persistent_conditions[p.idx] ELSE p.idx

InMap(p) == p.field \in {"knownFrequencies", "knownSignals", "dictConditions"}

\* selected.data.value, read and assigned
EntryValue(ent, p) ==
  IF InMap(p) THEN ent[p.field][EntryKey(p)] ELSE ent[p.field]

WithEntryValue(ent, p, v) ==
  IF InMap(p) THEN [ent EXCEPT ![p.field][EntryKey(p)] = v]
  ELSE [ent EXCEPT ![p.field] = v]

\* a toggle between true and false only: unknown goes to true, true and
\* false swap
ToggledTwoState(value) == IF value = "True" THEN "False" ELSE "True"

\* {True: False, False: None, None: True}[value]
Toggled(value) ==
  CASE value = "True" -> "False"
    [] value = "False" -> "None"
    [] value = "None" -> "True"

\* a bound copied from the reveal-order validator: -1 passes
NonNegativeFromMinus1(x) == x >= -1

\* Function(lambda x: int(x) >= 0, 'Must be non-negative')
NonNegative(x) == x >= 0

\* Entry.validator is set
HasValidator(p) == p.field \in {"fullTimeloops", "perfectMarshmallowsEaten"}

\* editbox.is_valid for the integer text x on an entry node
EntryValid(p, x) == HasValidator(p) => NonNegative(x)

\* self.has_focus: the tree has the keyboard unless the edit box, the option
\* list or the screen of a file picker has it
has_focus == editbox = "hidden" /\ ~optionlist.shown /\ pending = "none"

\* check_action(action, parameters) on the highlighted node
check_action(action, parameter) ==
  IF action \notin {"edit_value", "toggle_value", "sort", "set_log_state"}
  THEN TRUE
  ELSE IF selected = NoNode /\ selectedEntry = NoEntry THEN FALSE
  ELSE CASE action = "sort" ->
              selected \in Rumors
                /\ parameter = (IF sorted_by = "reveal" THEN "alpha" ELSE "reveal")
         [] action = "edit_value" ->
              (selected \in Rumors
                 \/ EntryType(selectedEntry) \in {"int", "DeathTypeEnum"})
                /\ has_focus
         [] action = "toggle_value" ->
              selected = NoNode
                /\ EntryType(selectedEntry) \in {"Tristate", "bool"}
                /\ has_focus
         [] action = "set_log_state" -> selected \in Rumors

\* GameSaveTree.__init__, ending in set_gamesave(GameSave())
TreeInit ==
  /\ facts = GameSave.shipLogFactSaves
  /\ children = NodesFor(GameSave.shipLogFactSaves)
  /\ sorted_by = "reveal"
  /\ selected = NoNode
  /\ newlyRevealedFactIDs = GameSave.newlyRevealedFactIDs
  /\ editbox = "hidden"
  /\ gamesave = Unshared(GameSave)
  /\ entries = EntriesFor(GameSave, InitEntries)
  /\ selectedEntry = NoEntry
  /\ outcome = NoOutcome
  /\ pending = "none"
  /\ optionlist = NoOptions

Init == TreeInit /\ file = NoFile

(* ----------------------------- actions --------------------------------- *)
\* on_tree_node_highlighted on a fact node
Highlight(k) ==
  /\ has_focus
  /\ selected # k
  /\ selected' = k
  /\ selectedEntry' = NoEntry
  /\ UNCHANGED <<facts, children, sorted_by, newlyRevealedFactIDs, editbox,
                 gamesave, entries, file, outcome, pending, optionlist>>

\* on_tree_node_highlighted on an entry node
HighlightEntry(p) ==
  /\ has_focus
  /\ selectedEntry # p
  /\ selectedEntry' = p
  /\ selected' = NoNode
  /\ UNCHANGED <<facts, children, sorted_by, newlyRevealedFactIDs, editbox,
                 gamesave, entries, file, outcome, pending, optionlist>>

\* action_toggle_value: submit_edit of the next value of the tri-state or
\* boolean entry
action_toggle_value ==
  /\ check_action("toggle_value", "")
  /\ LET value == EntryValue(entries, selectedEntry) IN
       entries' = WithEntryValue(entries, selectedEntry,
                    IF EntryType(selectedEntry) = "Tristate"
                    THEN Tristate(Toggled(value.tristate)) ELSE ~value)
  /\ UNCHANGED <<facts, children, sorted_by, selected, newlyRevealedFactIDs,
                 editbox, gamesave, file, selectedEntry, outcome,
                 pending, optionlist>>

\* action_edit_value: on a log-fact or integer entry the edit box opens; on
\* lastDeathType the option list is filled with one option per member in
\* SINGLE mode, the option of the current value is set, the cursor is put on
\* it and the list is shown
action_edit_value ==
  /\ editbox = "hidden"
  /\ IF selected = NoNode /\ selectedEntry # NoEntry
        /\ EntryType(selectedEntry) = "DeathTypeEnum"
     THEN /\ check_action("edit_value", "")
          /\ optionlist' =
               [shown  |-> TRUE,
                index  |-> IntOf(EntryValue(entries, selectedEntry)),
                marked |-> {IntOf(EntryValue(entries, selectedEntry))}]
          /\ UNCHANGED <<facts, children, sorted_by, selected,
                         newlyRevealedFactIDs, editbox, gamesave, entries,
                         file, selectedEntry, outcome, pending>>
     ELSE /\ \/ selected \in Rumors
             \/ selectedEntry # NoEntry /\ EntryType(selectedEntry) = "int"
          /\ editbox' = "open"
          /\ UNCHANGED <<facts, children, sorted_by, selected,
                         newlyRevealedFactIDs, other>>

\* the cursor of the option list moves by one option (ListView cursor keys)
cursor_move(d) ==
  /\ optionlist.shown
  /\ optionlist.index + d \in 0..MaxDeathType
  /\ optionlist' = [optionlist EXCEPT !.index = @ + d]
  /\ UNCHANGED <<facts, children, sorted_by, selected, newlyRevealedFactIDs,
                 editbox, gamesave, entries, file, selectedEntry, outcome,
                 pending>>

\* OptionList.action_toggle in SINGLE mode: nothing when the option under the
\* cursor is set, else it is set and every other option is cleared
action_toggle ==
  /\ optionlist.shown
  /\ optionlist' =
       IF optionlist.index \in optionlist.marked THEN optionlist
       ELSE [optionlist EXCEPT !.marked = {optionlist.index}]
  /\ UNCHANGED <<facts, children, sorted_by, selected, newlyRevealedFactIDs,
                 editbox, gamesave, entries, file, selectedEntry, outcome,
                 pending>>

\* action_submit with the option list focused on a DeathTypeEnum entry:
\* submit_edit(DeathTypeEnum(optionlist.index)), then the list is hidden
action_submit_optionlist ==
  /\ optionlist.shown
  /\ EntryType(selectedEntry) = "DeathTypeEnum"
  /\ entries' = WithEntryValue(entries, selectedEntry,
                               DeathTypeEnum(optionlist.index))
  /\ optionlist' = [optionlist EXCEPT !.shown = FALSE]
  /\ UNCHANGED <<facts, children, sorted_by, selected, newlyRevealedFactIDs,
                 editbox, gamesave, file, selectedEntry, outcome, pending>>

\* the option list loses focus (escape, OptionList.on_blur -> hide)
optionlist_on_blur ==
  /\ optionlist.shown
  /\ optionlist' = [optionlist EXCEPT !.shown = FALSE]
  /\ UNCHANGED <<facts, children, sorted_by, selected, newlyRevealedFactIDs,
                 editbox, gamesave, entries, file, selectedEntry, outcome,
                 pending>>

\* action_submit from the edit box with the integer text x
action_submit(x) ==
  /\ editbox = "open"
  /\ IF selected \in Rumors
     THEN IF RevealOrderValid(x, facts)
          THEN /\ submit_edit(x)
               /\ UNCHANGED <<sorted_by, selected, newlyRevealedFactIDs, other>>
          ELSE UNCHANGED vars
     ELSE IF EntryValid(selectedEntry, x)
          THEN /\ entries' = WithEntryValue(entries, selectedEntry, x)
               /\ editbox' = "hidden"
               /\ UNCHANGED <<facts, children, sorted_by, selected,
                              newlyRevealedFactIDs, gamesave, file,
                              selectedEntry, outcome, pending, optionlist>>
          ELSE UNCHANGED vars

\* action_submit from the edit box with a text int() cannot parse ("" or
\* "-"): a validator fails on it and the handler returns; without a
\* validator submit_edit raises before it assigns
action_submit_unparsed ==
  /\ editbox = "open"
  /\ IF selected \in Rumors \/ HasValidator(selectedEntry)
     THEN UNCHANGED vars
     ELSE /\ outcome' = [op |-> "submit_edit", arg |-> selectedEntry,
                         raised |-> "ValueError"]
          /\ UNCHANGED <<facts, children, sorted_by, selected,
                         newlyRevealedFactIDs, editbox, gamesave, entries, file,
                         selectedEntry, pending, optionlist>>

\* the edit box loses focus (MyInput.on_blur -> hide_editbox)
on_blur ==
  /\ editbox = "open"
  /\ editbox' = "hidden"
  /\ UNCHANGED <<facts, children, sorted_by, selected, newlyRevealedFactIDs, other>>

\* action_set_log_state("read")
SetLogStateRead ==
  /\ editbox = "hidden"
  /\ selected \in Rumors
  /\ facts' = [facts EXCEPT ![selected].read = ~@]
  /\ UNCHANGED <<children, sorted_by, selected, newlyRevealedFactIDs, editbox, other>>

\* the fact objects after action_set_log_state("reveal") on the log fact sel
ToggleRevealFacts(fs, ch, sel) ==
  IF fs[sel].revealOrder > -1
  THEN [SubmitFacts(fs, ch, sel, -1) EXCEPT ![sel].newlyRevealed = FALSE]
  ELSE [SubmitFacts(fs, ch, sel, MaxNext(fs)) EXCEPT ![sel].newlyRevealed = TRUE]

\* newlyRevealedFactIDs after action_set_log_state("reveal") on the log fact sel
ToggleRevealIds(ids, fs, sel) ==
  IF fs[sel].revealOrder > -1
  THEN Without(ids, fs[sel].id)
  ELSE Append(ids, fs[sel].id)

\* action_set_log_state("reveal")
SetLogStateReveal ==
  /\ editbox = "hidden"
  /\ selected \in Rumors
  /\ ~(facts[selected].revealOrder > -1)
       => MaxNext(facts) <= MaxOrder /\ Len(newlyRevealedFactIDs) < MaxNewly
  /\ facts' = ToggleRevealFacts(facts, children, selected)
  /\ newlyRevealedFactIDs' =
       ToggleRevealIds(newlyRevealedFactIDs, facts, selected)
  /\ children' = SortedChildren(children, facts', sorted_by)
  /\ UNCHANGED <<sorted_by, selected, editbox, other>>

\* action_set_log_state("new_reveal")
SetLogStateNewReveal ==
  /\ editbox = "hidden"
  /\ selected \in Rumors
  /\ facts' = [facts EXCEPT ![selected].newlyRevealed = ~@]
  /\ IF ~facts[selected].newlyRevealed
     THEN /\ Len(newlyRevealedFactIDs) < MaxNewly
          /\ newlyRevealedFactIDs' =
               Append(newlyRevealedFactIDs, facts[selected].id)
     ELSE newlyRevealedFactIDs' =
               Without(newlyRevealedFactIDs, facts[selected].id)
  /\ UNCHANGED <<children, sorted_by, selected, editbox, other>>

\* action_sort(sort_by) from its key binding (check_action offers the mode
\* that is not the current one)
action_sort(sort_by) ==
  /\ editbox = "hidden"
  /\ selected \in Rumors
  /\ sort_by # sorted_by
  /\ sorted_by' = sort_by
  /\ children' = SortedChildren(children, facts, sort_by)
  /\ UNCHANGED <<facts, selected, newlyRevealedFactIDs, editbox, other>>

\* submit_edit called directly with an arbitrary integer on the selected fact
SubmitEditRaw(x) ==
  /\ editbox = "hidden"
  /\ selected \in Rumors
  /\ submit_edit(x)
  /\ UNCHANGED <<sorted_by, selected, newlyRevealedFactIDs, other>>

\* set_gamesave: the GameSave is projected into the tree; the fact nodes are
\* replaced, so none of them is highlighted afterwards
set_gamesave(gs) ==
  /\ gamesave' = Unshared(gs)
  /\ entries' = EntriesFor(gs, entries)
  /\ facts' = gs.shipLogFactSaves
  /\ children' = NodesFor(gs.shipLogFactSaves)
  /\ newlyRevealedFactIDs' = gs.newlyRevealedFactIDs
  /\ selected' = NoNode
  /\ selectedEntry' = selectedEntry

\* a load that fills the current GameSave in place: when a later statement
\* raises, the loopCount read before it stays
open_in_place ==
  /\ editbox = "hidden"
  /\ file # NoFile
  /\ outcome' = [op |-> "open", arg |-> file, raised |-> from_json_raises(file)]
  /\ IF from_json_raises(file) = "none"
     THEN set_gamesave(from_json(file))
     ELSE /\ gamesave' =
               IF file # Malformed /\ "loopCount" \in DOMAIN file
               THEN [gamesave EXCEPT !.loopCount = file.loopCount] ELSE gamesave
          /\ UNCHANGED <<entries, facts, children, newlyRevealedFactIDs,
                         selected, selectedEntry>>
  /\ UNCHANGED <<sorted_by, editbox, file, pending, optionlist>>

\* _open: from_json builds a new GameSave from the file; when it raises,
\* the with block is left before set_gamesave runs
open_ ==
  /\ editbox = "hidden"
  /\ file # NoFile
  /\ outcome' = [op |-> "open", arg |-> file, raised |-> from_json_raises(file)]
  /\ IF from_json_raises(file) = "none"
     THEN set_gamesave(from_json(file))
     ELSE UNCHANGED <<gamesave, entries, facts, children, newlyRevealedFactIDs,
                      selected, selectedEntry>>
  /\ UNCHANGED <<sorted_by, editbox, file, pending, optionlist>>

\* _save: update_gamesave, then GameSave.save writes to_json to the file
save_ ==
  /\ editbox = "hidden"
  /\ gamesave' = update_gamesave(gamesave, entries)
  /\ file' = to_json(Whole(gamesave', facts, newlyRevealedFactIDs))
  /\ UNCHANGED <<facts, children, sorted_by, selected, newlyRevealedFactIDs,
                 editbox, entries, selectedEntry, outcome, pending, optionlist>>

\* the kinds of object GameSave.save is called with
DestinationKinds == {"str", "Path", "TextIOBase", "int", "NoneType"}

\* GameSave.save: a str and a Path are opened for writing; anything that is
\* left is not a str, and the ValueError is raised
save_raises(kind) == IF kind \in {"str", "Path"} THEN "none" ELSE "ValueError"

\* GameSave.save(file) called with a destination of the given kind: to_json
\* is written when nothing was raised
GameSave_save(kind) ==
  /\ editbox = "hidden"
  /\ outcome' = [op |-> "GameSave.save", arg |-> [kind |-> kind],
                 raised |-> save_raises(kind)]
  /\ file' = IF save_raises(kind) = "none"
             THEN to_json(Whole(gamesave, facts, newlyRevealedFactIDs))
             ELSE file
  /\ UNCHANGED <<facts, children, sorted_by, selected, newlyRevealedFactIDs,
                 editbox, gamesave, entries, selectedEntry, pending, optionlist>>

\* action_open, up to the await in _open: no file is configured, the
\* FileOpen picker is pushed and the worker waits for its result
action_open ==
  /\ has_focus
  /\ pending' = "open"
  /\ UNCHANGED <<facts, children, sorted_by, selected, newlyRevealedFactIDs,
                 editbox, gamesave, entries, file, selectedEntry, outcome,
                 optionlist>>

\* action_save, up to the await in _save: the FileSave picker is pushed
action_save ==
  /\ has_focus
  /\ pending' = "save"
  /\ UNCHANGED <<facts, children, sorted_by, selected, newlyRevealedFactIDs,
                 editbox, gamesave, entries, file, selectedEntry, outcome,
                 optionlist>>

\* the picker returns the path of the save file: _open goes on to load it,
\* _save to update_gamesave and write it
picker_select ==
  /\ pending # "none"
  /\ pending' = "none"
  /\ IF pending = "open"
     THEN /\ file # NoFile
          /\ outcome' = [op |-> "open", arg |-> file,
                         raised |-> from_json_raises(file)]
          /\ IF from_json_raises(file) = "none"
             THEN set_gamesave(from_json(file))
             ELSE UNCHANGED <<gamesave, entries, facts, children,
                              newlyRevealedFactIDs, selected, selectedEntry>>
          /\ UNCHANGED <<sorted_by, editbox, file, optionlist>>
     ELSE /\ gamesave' = update_gamesave(gamesave, entries)
          /\ file' = to_json(Whole(gamesave', facts, newlyRevealedFactIDs))
          /\ outcome' = [op |-> "save", arg |-> NoFile, raised |-> "none"]
          /\ UNCHANGED <<facts, children, sorted_by, selected,
                         newlyRevealedFactIDs, editbox, entries, selectedEntry,
                         optionlist>>

\* the picker is dismissed and push_screen_wait returns None: _open raises
\* TypeError in Path(None); _save runs update_gamesave and then
\* GameSave.save(None) raises ValueError
picker_dismiss ==
  /\ pending # "none"
  /\ pending' = "none"
  /\ IF pending = "open"
     THEN /\ outcome' = [op |-> "open", arg |-> NoFile, raised |-> "TypeError"]
          /\ UNCHANGED gamesave
     ELSE /\ outcome' = [op |-> "save", arg |-> NoFile, raised |-> "ValueError"]
          /\ gamesave' = update_gamesave(gamesave, entries)
  /\ UNCHANGED <<facts, children, sorted_by, selected, newlyRevealedFactIDs,
                 editbox, entries, file, selectedEntry, optionlist>>

(* -------------------------- specifications ----------------------------- *)
\* requests the model lets through (reveal orders stay within MaxOrder)
Requests == (-1 - MaxBelow)..MaxOrder

NextTree ==
  \/ \E k \in Rumors : Highlight(k)
  \/ action_edit_value
  \/ \E x \in Requests : action_submit(x)
  \/ on_blur
  \/ SetLogStateRead
  \/ SetLogStateReveal
  \/ SetLogStateNewReveal
  \/ \E sort_by \in {"reveal", "alpha"} : action_sort(sort_by)

\* the tree driven through its key bindings and the edit box
SpecTree == Init /\ [][NextTree]_vars

NextRaw ==
  \/ NextTree
  \/ \E x \in Requests : SubmitEditRaw(x)

\* submit_edit driven directly, with any integer
SpecRaw == Init /\ [][NextRaw]_vars

\* Tristate(value) called on a Python object
CallTristate(value) ==
  /\ outcome' = [op |-> "Tristate", arg |-> value, raised |-> Tristate_init(value)]
  /\ UNCHANGED <<facts, children, sorted_by, selected, newlyRevealedFactIDs,
                 editbox, gamesave, entries, file, selectedEntry,
                 pending, optionlist>>

\* bool(value) called on the value of the highlighted tri-state entry
CallBool ==
  /\ selectedEntry # NoEntry
  /\ EntryType(selectedEntry) = "Tristate"
  /\ outcome' = [op |-> "bool", arg |-> EntryValue(entries, selectedEntry),
                 raised |-> Tristate_bool(EntryValue(entries, selectedEntry))]
  /\ UNCHANGED <<facts, children, sorted_by, selected, newlyRevealedFactIDs,
                 editbox, gamesave, entries, file, selectedEntry,
                 pending, optionlist>>

\* the objects handed to the constructor
PyInputs ==
  {PyNone, PyBool(TRUE), PyBool(FALSE)}
    \cup {PyInt(n) : n \in Requests}
    \cup {PyStr(i) : i \in 1..NumSampleStrings}
    \cup {PyTristate(x) : x \in {PyNone, PyBool(TRUE), PyBool(FALSE)}}

NextToggle ==
  \/ \E p \in ToggleEntryNodes : HighlightEntry(p)
  \/ action_toggle_value
  \/ \E value \in PyInputs : CallTristate(value)
  \/ CallBool

\* the tri-state and boolean entries under the toggle key, and the Tristate
\* class called directly
SpecToggle == Init /\ [][NextToggle]_vars

NextEdit ==
  \/ \E k \in Rumors : Highlight(k)
  \/ \E p \in IntEntryNodes : HighlightEntry(p)
  \/ action_edit_value
  \/ \E x \in Requests : action_submit(x)
  \/ action_submit_unparsed
  \/ on_blur

\* the edit box on the log facts and the integer entries
SpecEdit == Init /\ [][NextEdit]_vars

(* ------------------------- save documents ------------------------------ *)
RECURSIVE SetToSeq(_)
\* the elements of a set of ids in ascending order
SetToSeq(S) ==
  IF S = {} THEN <<>>
  ELSE LET m == CHOOSE x \in S : \A y \in S : x <= y
       IN  <<m>> \o SetToSeq(S \ {m})

\* reveal orders of the facts a document stores: dense over the revealed ones
DocOrders(S) ==
  {o \in [S -> -1..(Cardinality(S) - 1)] :
     {o[k] : k \in {j \in S : o[j] >= 0}}
       = 0..(Cardinality({j \in S : o[j] >= 0}) - 1)}

\* shipLogFactSaves of a document: any subset of the rumors, keyed by id
DocFactMaps ==
  UNION {UNION {{[k \in S |-> [id |-> k, revealOrder |-> o[k], read |-> rd,
                               newlyRevealed |-> k \in W]] :
                   rd \in BOOLEAN, W \in SUBSET {j \in S : o[j] >= 0}} :
                o \in DocOrders(S)} :
         S \in SUBSET Rumors}

\* dictConditions of a document: any subset of the names, true, false or null
DocConditionMaps ==
  UNION {[S -> {"True", "False", "None"}] : S \in SUBSET Conditions}

\* the remaining fields of a document, in a few combinations
DocProfiles ==
  {[loopCount |-> 1, knownFrequencies |-> <<>>,
    knownSignals |-> [k \in {} |-> FALSE],
    lastDeathType |-> 0, burnedMarshmallowEaten |-> 0, fullTimeloops |-> 0,
    perfectMarshmallowsEaten |-> 0, warpedToTheEye |-> FALSE,
    secondsRemainingOnWarp |-> 0, loopCountOnParadox |-> 0, shownPopups |-> 0,
    version |-> "NONE", ps5Activity_canResumeExpedition |-> FALSE,
    ps5Activity_availableShipLogCards |-> <<>>, didRunInitGammaSetting |-> FALSE],
   [loopCount |-> 5, knownFrequencies |-> <<FALSE, TRUE>>,
    knownSignals |-> [k \in {StrOf(10), StrOf(101)} |-> k = StrOf(101)],
    lastDeathType |-> MaxDeathType, burnedMarshmallowEaten |-> 2,
    fullTimeloops |-> 3, perfectMarshmallowsEaten |-> 1, warpedToTheEye |-> TRUE,
    secondsRemainingOnWarp |-> 7, loopCountOnParadox |-> 4, shownPopups |-> 5,
    version |-> "1.1.13", ps5Activity_canResumeExpedition |-> TRUE,
    ps5Activity_availableShipLogCards |-> <<"card">>,
    didRunInitGammaSetting |-> TRUE],
   [loopCount |-> 2,
    knownFrequencies |-> [n \in 1..NumFrequencies |-> n \in {1, 3}],
    knownSignals |-> [k \in {StrOf(g) : g \in SignalEnum} |-> IntOfStr(k) > 40],
    lastDeathType |-> 3, burnedMarshmallowEaten |-> 0, fullTimeloops |-> 1,
    perfectMarshmallowsEaten |-> 0, warpedToTheEye |-> FALSE,
    secondsRemainingOnWarp |-> 0, loopCountOnParadox |-> 0, shownPopups |-> 7,
    version |-> "1.1.13", ps5Activity_canResumeExpedition |-> FALSE,
    ps5Activity_availableShipLogCards |-> <<>>, didRunInitGammaSetting |-> TRUE]}

\* the save documents the model reads
DocSet ==
  {p @@ [dictConditions |-> c, shipLogFactSaves |-> fm,
         newlyRevealedFactIDs |->
           SetToSeq({k \in DOMAIN fm : fm[k].newlyRevealed})] :
     p \in DocProfiles, c \in DocConditionMaps, fm \in DocFactMaps}

\* the tree as constructed, next to a save file with any of the documents
InitJson == TreeInit /\ file \in DocSet

NextJson == open_ \/ save_

\* loading and saving without edits in between
SpecJson == InitJson /\ [][NextJson]_vars

\* a document with every fact: none revealed, or all revealed in the order
\* of the rumors
LoadFactMaps ==
  {[k \in Rumors |->
      [id |-> k,
       revealOrder |-> IF r THEN (CHOOSE i \in 1..Len(rumors) : rumors[i] = k) - 1
                       ELSE -1,
       read |-> FALSE, newlyRevealed |-> FALSE]] : r \in BOOLEAN}

\* a document without conditions, and one with every condition
LoadConditionMaps ==
  {[c \in {} |-> "None"],
   [c \in Conditions |-> IF c = persistent_conditions[1] THEN "True" ELSE "False"]}

\* documents that load
GoodDocs ==
  {p @@ [dictConditions |-> c, shipLogFactSaves |-> fm,
         newlyRevealedFactIDs |-> <<>>] :
     p \in DocProfiles, c \in LoadConditionMaps, fm \in LoadFactMaps}

\* one document per profile, to derive the failing ones from
BaseDocs ==
  {d \in GoodDocs :
     DOMAIN d.dictConditions = {} /\ \A k \in Rumors : d.shipLogFactSaves[k].revealOrder = -1}

\* the document d without one of its keys
DropKey(d, key) == [f \in DOMAIN d \ {key} |-> d[f]]

\* file contents on which from_json raises: text that is not JSON, a missing
\* key, a death type or signal code outside the enum, an eighth frequency
BadDocs ==
  {Malformed}
    \cup {DropKey(d, key) :
            d \in BaseDocs,
            key \in {"loopCount", "lastDeathType", "didRunInitGammaSetting"}}
    \cup {[d EXCEPT !.lastDeathType = n] :
            d \in BaseDocs, n \in {-1, MaxDeathType + 1}}
    \cup {[d EXCEPT !.knownSignals = [k \in {StrOf(g)} |-> TRUE] @@ @] :
            d \in BaseDocs, g \in {0, 17, 102}}
    \cup {[d EXCEPT !.knownFrequencies = [n \in 1..(NumFrequencies + 1) |-> FALSE]] :
            d \in BaseDocs}

\* the file the picker (or the configuration) names changes to one holding d
PickFile(d) ==
  /\ editbox = "hidden"
  /\ file # d
  /\ file' = d
  /\ UNCHANGED <<facts, children, sorted_by, selected, newlyRevealedFactIDs,
                 editbox, gamesave, entries, selectedEntry, outcome,
                 pending, optionlist>>

NextLoad ==
  \/ \E d \in GoodDocs \cup BadDocs : PickFile(d)
  \/ open_

\* opening files that load next to files that do not
SpecLoad == Init /\ [][NextLoad]_vars

\* the entries the model highlights next to the file pickers
PickerEntryNodes ==
  {EntryNode("dictConditions", 1), EntryNode("warpedToTheEye", 0)}

NextPicker ==
  \/ \E p \in PickerEntryNodes : HighlightEntry(p)
  \/ action_toggle_value
  \/ action_open
  \/ action_save
  \/ picker_select
  \/ picker_dismiss

\* toggles next to open and save through their file pickers
SpecPicker == Init /\ [][NextPicker]_vars

\* documents with every fact, in every dense assignment of reveal orders
SortDocs ==
  {(CHOOSE p \in DocProfiles : p.loopCount = 1)
     @@ [dictConditions |-> [c \in Conditions |-> "None"],
         shipLogFactSaves |-> fm, newlyRevealedFactIDs |-> <<>>] :
     fm \in {m \in DocFactMaps :
               /\ DOMAIN m = Rumors
               /\ \A k \in Rumors : ~m[k].read /\ ~m[k].newlyRevealed}}

NextSort ==
  \/ \E k \in Rumors : Highlight(k)
  \/ \E sort_by \in {"reveal", "alpha"} : action_sort(sort_by)
  \/ SetLogStateReveal
  \/ \E d \in SortDocs : PickFile(d)
  \/ open_

\* sorting and revealing next to loading documents in any reveal order
SpecSort == Init /\ [][NextSort]_vars

\* the entries the model highlights next to the option list
OptionEntryNodes ==
  {EntryNode("lastDeathType", 0), EntryNode("warpedToTheEye", 0)}

NextOptions ==
  \/ \E p \in OptionEntryNodes : HighlightEntry(p)
  \/ action_edit_value
  \/ \E d \in {-1, 1} : cursor_move(d)
  \/ action_toggle
  \/ action_submit_optionlist
  \/ optionlist_on_blur

\* the death type chosen through the option list
SpecOptions == Init /\ [][NextOptions]_vars

NextSave ==
  \/ open_
  \/ \E kind \in DestinationKinds : GameSave_save(kind)

\* GameSave.save on every kind of destination, after loading any document
SpecSave == InitJson /\ [][NextSave]_vars

Next ==
  \/ NextTree
  \/ open_
  \/ save_

\* the program: tree edits, saving, and opening what was saved
Spec == Init /\ [][Next]_vars

(* ------------------------------ claims --------------------------------- *)
Revealed(fs) == {k \in DOMAIN fs : fs[k].revealOrder >= 0}

Dense(fs) ==
  {fs[k].revealOrder : k \in Revealed(fs)} = 0..(Cardinality(Revealed(fs)) - 1)

\* C1: after every accepted reveal-order edit the non-negative reveal orders
\* are exactly 0..k-1, without gaps or duplicates
C1_RevealOrderDense == Dense(facts)

\* C2: loading what to_json writes for a loaded document gives the model of
\* the first load, field for field
C2_RoundTrip ==
  file # NoFile => from_json(to_json(from_json(file))) = from_json(file)

\* a document with omitted keys has been loaded: what is written back differs
\* from it, one condition came out unknown and one explicitly false
C2_Witness ==
  /\ file # NoFile
  /\ Whole(gamesave, facts, newlyRevealedFactIDs) = from_json(file)
  /\ to_json(from_json(file)) # file
  /\ \E c \in Conditions : gamesave.dictConditions[c] = Tristate("None")
  /\ \E c \in Conditions : gamesave.dictConditions[c] = Tristate("False")
  /\ \E k \in Rumors : k \notin DOMAIN file.shipLogFactSaves

SeqToSet(s) == {s[i] : i \in 1..Len(s)}

\* C3: the ids listed in newlyRevealedFactIDs are exactly the ids of the facts
\* whose newlyRevealed flag is set
C3_NewlyRevealedConsistent ==
  SeqToSet(newlyRevealedFactIDs) =
    {facts[k].id : k \in {j \in Rumors : facts[j].newlyRevealed}}

\* a revealed, flagged and listed fact next to a fact whose read flag was set
C3_Witness ==
  /\ \E k \in Rumors : /\ facts[k].newlyRevealed
                       /\ facts[k].revealOrder >= 0
                       /\ facts[k].id \in SeqToSet(newlyRevealedFactIDs)
  /\ \E k \in Rumors : facts[k].read /\ ~facts[k].newlyRevealed

\* C4: a direct submit_edit stores an order between -1 and the slot after the
\* last revealed fact, whatever integer is requested
C4_Clamped ==
  [][\A x \in Requests :
       SubmitEditRaw(x) =>
         /\ facts'[selected].revealOrder >= -1
         /\ facts'[selected].revealOrder <= MaxNext(facts)]_vars

\* C5: un-revealing a fact of order o lowers every greater order by exactly 1
\* and leaves the smaller ones alone
C5_UnrevealCompacts ==
  [][(/\ selected \in Rumors
      /\ facts[selected].revealOrder >= 0
      /\ facts'[selected].revealOrder = -1)
     => \A k \in Rumors \ {selected} :
          /\ facts[k].revealOrder > facts[selected].revealOrder
               => facts'[k].revealOrder = facts[k].revealOrder - 1
          /\ facts[k].revealOrder < facts[selected].revealOrder
               => facts'[k].revealOrder = facts[k].revealOrder]_vars

\* C6: revealing an unrevealed fact at order r raises by exactly 1 every other
\* order that was >= r and leaves the unrevealed facts at -1
C6_RevealInserts ==
  [][(/\ selected \in Rumors
      /\ facts[selected].revealOrder = -1
      /\ facts'[selected].revealOrder >= 0)
     => \A k \in Rumors \ {selected} :
          /\ facts[k].revealOrder >= facts'[selected].revealOrder
               => facts'[k].revealOrder = facts[k].revealOrder + 1
          /\ (facts[k].revealOrder >= 0
              /\ facts[k].revealOrder < facts'[selected].revealOrder)
               => facts'[k].revealOrder = facts[k].revealOrder
          /\ facts[k].revealOrder = -1 => facts'[k].revealOrder = -1]_vars

\* the revealed facts as a list ordered by revealOrder
RevealedList(fs) ==
  SortedAsc(SelectSeq(rumors, LAMBDA k : fs[k].revealOrder >= 0),
            SortKey(fs, "reveal"))

\* list s with x inserted so that it lands at index i (0-based), or at the end
InsertAt(s, i, x) ==
  IF i >= Len(s) THEN Append(s, x)
  ELSE SubSeq(s, 1, i) \o <<x>> \o SubSeq(s, i + 1, Len(s))

IndexOf(s, x) == CHOOSE i \in 1..Len(s) : s[i] = x

\* C7: moving a revealed fact to order r equals removing it from the list of
\* revealed facts and reinserting it at index r, clamped to the end
C7_MoveIsReinsertion ==
  [][\A x \in 0..MaxOrder :
       (action_submit(x) /\ RevealOrderValid(x, facts)
        /\ facts[selected].revealOrder >= 0)
       => LET moved == InsertAt(Without(RevealedList(facts), selected), x, selected)
          IN  \A k \in Revealed(facts) :
                facts'[k].revealOrder = IndexOf(moved, k) - 1]_vars

\* C8: a fact that leaves the revealed set loses its newlyRevealed flag and its
\* list entry; a fact that enters it gets the flag and is appended to the list
C8_NewlyRevealedTracked ==
  [][/\ (/\ selected \in Rumors
         /\ facts[selected].revealOrder >= 0
         /\ facts'[selected].revealOrder = -1)
        => /\ ~facts'[selected].newlyRevealed
           /\ facts[selected].id \notin SeqToSet(newlyRevealedFactIDs')
     /\ (/\ selected \in Rumors
         /\ facts[selected].revealOrder = -1
         /\ facts'[selected].revealOrder >= 0)
        => /\ facts'[selected].newlyRevealed
           /\ newlyRevealedFactIDs' =
                Append(newlyRevealedFactIDs, facts[selected].id)]_vars

\* C9: sorting by reveal order a second time leaves the display order of the
\* first sort
C9_SortIdempotent ==
  SortedChildren(SortedChildren(children, facts, "reveal"), facts, "reveal")
    = SortedChildren(children, facts, "reveal")

DisplayOrders(S) ==
  {s \in [1..Cardinality(S) -> S] : \A a \in S : \E i \in DOMAIN s : s[i] = a}

\* C10: the display order under the reveal ordering depends only on the facts'
\* reveal orders and ids, not on the order the nodes had before
C10_OrderIndependentOfPrior ==
  \A p \in DisplayOrders(Rumors) :
    SortedChildren(p, facts, "reveal") = SortedChildren(children, facts, "reveal")

\* how often node k occurs in a display order
Occurrences(ch, k) == Cardinality({i \in DOMAIN ch : ch[i] = k})

\* C11: a sort changes the display order only: every fact keeps its
\* revealOrder, read, newlyRevealed and id, newlyRevealedFactIDs and every
\* other model field stay as they were, and the nodes after the sort are the
\* nodes before it, none added, dropped or duplicated
C11_SortIsDisplayOnly ==
  [][sorted_by' # sorted_by =>
       /\ facts' = facts
       /\ newlyRevealedFactIDs' = newlyRevealedFactIDs
       /\ gamesave' = gamesave
       /\ entries' = entries
       /\ file' = file
       /\ Len(children') = Len(children)
       /\ \A k \in Rumors : Occurrences(children', k) = Occurrences(children, k)]_vars

\* sorted by id after edits: a fact is revealed, one is read, one is listed
C11_Witness ==
  /\ sorted_by = "alpha"
  /\ newlyRevealedFactIDs # <<>>
  /\ \E k \in Rumors : facts[k].read
  /\ \E k \in Rumors : facts[k].revealOrder >= 0

\* C20: loopCount is at least 1 in the default model, after every load and
\* after every edit of the loopCount entry
C20_LoopCountPositive == entries.loopCount >= 1 /\ gamesave.loopCount >= 1

\* what the claim calls rejected, for the integer text x on the highlighted
\* entry
Rejected(x) ==
  \/ selected \in Rumors /\ (x < -1 \/ x > MaxNext(facts))
  \/ selectedEntry \in {EntryNode("fullTimeloops", 0),
                        EntryNode("perfectMarshmallowsEaten", 0)} /\ x < 0

\* C19: a submission the entry's validator rejects changes no entry value
\* and no model field and leaves the edit box open, for integer texts and
\* for texts that do not parse; so fullTimeloops and
\* perfectMarshmallowsEaten are never negative
C19_RejectedEditsKeepState ==
  /\ [][/\ (\E x \in Requests : action_submit(x) /\ Rejected(x)) => UNCHANGED vars
        /\ action_submit_unparsed
             => UNCHANGED <<facts, children, newlyRevealedFactIDs, gamesave,
                            entries, editbox>>]_vars
  /\ [](entries.fullTimeloops >= 0 /\ entries.perfectMarshmallowsEaten >= 0)

\* the edit box is open again on fullTimeloops after an accepted edit, and a
\* reveal order was edited too
C19_Witness ==
  /\ editbox = "open"
  /\ selectedEntry = EntryNode("fullTimeloops", 0)
  /\ entries.fullTimeloops > 0
  /\ \E k \in Rumors : facts[k].revealOrder >= 0

\* C12: bool() of a Tristate raises TypeError whether it holds true, false or
\* unknown; it never returns a boolean
C12_BoolRaises ==
  /\ \A value \in {"True", "False", "None"} :
       Tristate_bool(Tristate(value)) = "TypeError"
  /\ outcome.op = "bool" => outcome.raised = "TypeError"

\* bool() was called on a Tristate holding false
C12_Witness == outcome.op = "bool" /\ outcome.arg = Tristate("False")

\* C13: the Tristate constructor creates an object for True, False and None
\* only; any other input (0, 1, other numbers, strings, a Tristate) raises
C13_OnlyThreeValues ==
  outcome.op = "Tristate" /\ outcome.raised = "none"
    => outcome.arg \in {PyNone, PyBool(TRUE), PyBool(FALSE)}

\* true -> false -> unknown -> true, as the claim states it
Cycle == [True |-> "False", False |-> "None", None |-> "True"]

\* C14: a toggle of a tri-state entry moves true to false, false to unknown
\* and unknown to true: it never keeps the value and two more toggles bring
\* the value back; a toggle of a boolean entry negates it, and a second one
\* brings the value back
C14_ToggleCycle ==
  [][entries' # entries /\ editbox = "hidden" /\ selectedEntry # NoEntry =>
       LET old == EntryValue(entries, selectedEntry)
           new == EntryValue(entries', selectedEntry)
       IN  /\ entries' = WithEntryValue(entries, selectedEntry, new)
           /\ IF EntryType(selectedEntry) = "Tristate"
              THEN /\ new.tristate = Cycle[old.tristate]
                   /\ new # old
                   /\ Toggled(Toggled(new.tristate)) = old.tristate
              ELSE /\ new = ~old
                   /\ ~new = old]_vars

\* one condition was toggled twice, the other once, and a boolean entry once
C14_Witness ==
  /\ entries.dictConditions[persistent_conditions[1]] = Tristate("False")
  /\ entries.dictConditions[persistent_conditions[2]] = Tristate("True")
  /\ entries.warpedToTheEye

\* C15: to_json writes a dictConditions key exactly for the conditions whose
\* value is true or false; a condition the loaded document lacks is loaded
\* as unknown and is absent from the output again; knownFrequencies,
\* knownSignals and shipLogFactSaves are written with all their keys
C15_ConditionsSerialized ==
  LET gs  == Whole(gamesave, facts, newlyRevealedFactIDs)
      out == to_json(gs)
  IN  /\ DOMAIN out.dictConditions =
           {c \in DOMAIN gs.dictConditions :
              gs.dictConditions[c] \in {Tristate("True"), Tristate("False")}}
      /\ file # NoFile =>
           \A c \in Conditions \ DOMAIN file.dictConditions :
             /\ from_json(file).dictConditions[c] = Tristate("None")
             /\ c \notin DOMAIN to_json(from_json(file)).dictConditions
      /\ Len(out.knownFrequencies) = NumFrequencies
      /\ DOMAIN out.knownSignals = {StrOf(g) : g \in SignalEnum}
      /\ DOMAIN out.shipLogFactSaves = Rumors

\* a document that lacks one condition and sets the other was loaded: the
\* output has the one it sets and not the one it lacks
C15_Witness ==
  /\ outcome.op = "open"
  /\ outcome.arg = file
  /\ Whole(gamesave, facts, newlyRevealedFactIDs) = from_json(file)
  /\ \E c \in Conditions \ DOMAIN file.dictConditions :
       c \notin DOMAIN to_json(from_json(file)).dictConditions
  /\ \E c \in DOMAIN file.dictConditions :
       c \in DOMAIN to_json(from_json(file)).dictConditions

\* C16: the default model and every loaded model hold all 7 frequency codes,
\* every signal code, every condition name and every fact id, and no other
\* fact key
C16_FixedKeySets ==
  /\ DOMAIN gamesave.knownFrequencies = FrequencyEnum
  /\ DOMAIN gamesave.knownSignals = SignalEnum
  /\ DOMAIN gamesave.dictConditions = Conditions
  /\ DOMAIN facts = Rumors

\* a document whose lastDeathType or one of whose knownSignals keys has no
\* enum member
InvalidEnumCode(d) ==
  /\ d # Malformed
  /\ \/ "lastDeathType" \in DOMAIN d /\ d.lastDeathType \notin 0..MaxDeathType
     \/ "knownSignals" \in DOMAIN d
          /\ \E k \in DOMAIN d.knownSignals : IntOfStr(k) \notin SignalEnum

\* C17: opening a document with an undefined death type or signal code
\* raises; no model comes out of it and none is put in place of the current
\* one, with a default for the bad code or otherwise
C17_InvalidEnumAborts ==
  [][open_ /\ InvalidEnumCode(file) =>
       /\ outcome'.raised = "ValueError"
       /\ UNCHANGED <<gamesave, entries, facts, children, newlyRevealedFactIDs>>]_vars

\* a load of a document with an undefined code failed after another document
\* had been loaded
C17_Witness ==
  /\ outcome.op = "open"
  /\ InvalidEnumCode(outcome.arg)
  /\ outcome.raised = "ValueError"
  /\ gamesave.loopCount = 5

\* the file is not JSON, or lacks a key from_json reads
MalformedOrIncomplete(d) ==
  d = Malformed \/ \E i \in 1..Len(DocumentKeys) : DocumentKeys[i] \notin DOMAIN d

\* C18: when opening fails on malformed JSON or a missing top-level key, the
\* tree entries and the current GameSave keep the values they had
C18_FailedLoadAtomic ==
  [][open_ /\ MalformedOrIncomplete(file) =>
       /\ outcome'.raised \in {"JSONDecodeError", "KeyError"}
       /\ UNCHANGED <<gamesave, entries, facts, children, newlyRevealedFactIDs>>]_vars

\* a load failed on a missing key after a document with revealed facts had
\* been loaded
C18_Witness ==
  /\ outcome.op = "open"
  /\ outcome.arg # Malformed
  /\ MalformedOrIncomplete(outcome.arg)
  /\ outcome.raised = "KeyError"
  /\ gamesave.loopCount = 2
  /\ \E k \in Rumors : facts[k].revealOrder >= 0

\* C21: the base frequency (code 0) is true in knownFrequencies in the default
\* model, after every load and after every toggle
C21_BaseFrequencyTrue ==
  gamesave.knownFrequencies[0] /\ entries.knownFrequencies[0]

\* the edit entry points, each with the parameters its bindings pass
EditEntryPoints ==
  {<<"edit_value", "">>, <<"toggle_value", "">>, <<"submit", "">>,
   <<"sort", "reveal">>, <<"sort", "alpha">>, <<"set_log_state", "reveal">>,
   <<"set_log_state", "new_reveal">>, <<"set_log_state", "read">>}

\* C22: while an open or a save waits for its file picker, every edit entry
\* point (edit_value, toggle_value, set_log_state, sort, submit) is disabled
C22_EditsDisabledWhilePending ==
  pending # "none" => \A e \in EditEntryPoints : ~check_action(e[1], e[2])

\* C23: dismissing the file picker of an open or a save leaves the model and
\* the tree entries unchanged, writes no file and raises no error
C23_CancelLeavesState ==
  [][picker_dismiss =>
       /\ UNCHANGED <<gamesave, entries, facts, children, newlyRevealedFactIDs,
                      file>>
       /\ outcome'.raised = "none"]_vars

\* the value a GameSave holds for a condition: a missing key counts as unknown
ConditionIn(gs, c) ==
  IF c \in DOMAIN gs.dictConditions THEN gs.dictConditions[c] ELSE Tristate("None")

\* C24: after update_gamesave the GameSave holds, for every editable field,
\* the value of the tree entry, whether the GameSave was loaded or is the
\* default one
C24_FlattenComplete ==
  LET gs == update_gamesave(gamesave, entries) IN
    /\ \A c \in Conditions : ConditionIn(gs, c) = entries.dictConditions[c]
    /\ \A f \in DOMAIN entries \ {"dictConditions", "ps5Activity_availableShipLogCards"} :
         gs[f] = entries[f]

\* C25: set_gamesave(M) followed by update_gamesave() without an edit in
\* between leaves the model equal to M: every map with the same keys and
\* values, the facts under their ids, the same list and scalars
C25_ProjectionRoundTrip ==
  /\ update_gamesave(gamesave, entries) = gamesave
  /\ \A k \in DOMAIN facts : facts[k].id = k
  /\ outcome.op = "open" /\ outcome.raised = "none" /\ outcome.arg = file =>
       Whole(update_gamesave(gamesave, entries), facts, newlyRevealedFactIDs)
         = from_json(file)

\* a document with a set condition, another loop count and a revealed fact
\* was loaded
C25_Witness ==
  /\ outcome.op = "open"
  /\ outcome.arg = file
  /\ gamesave.loopCount = 5
  /\ \E c \in Conditions : gamesave.dictConditions[c] = Tristate("True")
  /\ \E k \in Rumors : facts[k].revealOrder >= 0
  /\ entries.knownSignals[101]

\* C26: no id occurs twice in newlyRevealedFactIDs after any sequence of
\* toggles of "new_reveal" and "reveal"
C26_NoDuplicateIds ==
  \A i, j \in 1..Len(newlyRevealedFactIDs) :
    newlyRevealedFactIDs[i] = newlyRevealedFactIDs[j] => i = j

\* the nodes are in ascending order of the key of the tracked sort mode
InTrackedOrder ==
  \A i, j \in 1..Len(children) :
    i < j => SortKey(facts, sorted_by)[children[i]]
               <= SortKey(facts, sorted_by)[children[j]]

\* C27: in every reachable state the fact nodes are in ascending revealOrder
\* when sorted_by is "reveal" and in ascending id order when it is "alpha"
C27_DisplayMatchesSortMode == InTrackedOrder

\* C28: in a dense state, toggling "reveal" twice on an unrevealed fact first
\* gives it the order k = number of revealed facts and changes no other order,
\* then returns it to -1: every fact has its previous revealOrder and the id
\* of the fact is not in newlyRevealedFactIDs
C28_ToggleRevealTwice ==
  Dense(facts) =>
    \A k \in Rumors :
      facts[k].revealOrder = -1 =>
        LET f1   == ToggleRevealFacts(facts, children, k)
            ch1  == SortedChildren(children, f1, sorted_by)
            ids1 == ToggleRevealIds(newlyRevealedFactIDs, facts, k)
            f2   == ToggleRevealFacts(f1, ch1, k)
            ids2 == ToggleRevealIds(ids1, f1, k)
        IN  /\ f1[k].revealOrder = Cardinality(Revealed(facts))
            /\ \A j \in Rumors \ {k} : f1[j].revealOrder = facts[j].revealOrder
            /\ f2[k].revealOrder = -1
            /\ \A j \in Rumors : f2[j].revealOrder = facts[j].revealOrder
            /\ facts[k].id \notin SeqToSet(ids2)

\* a dense state with a revealed fact where the highlighted fact is unrevealed
\* and its id is already listed: the first toggle gives it an order >= 1 and
\* lists the id a second time
C28_Witness ==
  /\ Dense(facts)
  /\ Revealed(facts) # {}
  /\ selected \in Rumors
  /\ facts[selected].revealOrder = -1
  /\ facts[selected].id \in SeqToSet(newlyRevealedFactIDs)
  /\ ToggleRevealFacts(facts, children, selected)[selected].revealOrder >= 1
  /\ Len(ToggleRevealIds(newlyRevealedFactIDs, facts, selected)) >= 2

\* C29: while the option list is open for lastDeathType exactly one option is
\* marked, and a submit sets lastDeathType to the member of the marked option,
\* whatever cursor moves and toggles came before
C29_SubmitTakesMarked ==
  /\ [](optionlist.shown => Cardinality(optionlist.marked) = 1)
  /\ [][action_submit_optionlist
          => IntOf(entries'.lastDeathType) \in optionlist.marked]_vars

\* C30: GameSave.save accepts a str path, a Path and an open text stream and
\* writes the serialized model to each; it raises ValueError only for an
\* argument of another type
C30_SaveDestinations ==
  outcome.op = "GameSave.save" =>
    IF outcome.arg.kind \in {"str", "Path", "TextIOBase"}
    THEN /\ outcome.raised = "none"
         /\ file = to_json(Whole(gamesave, facts, newlyRevealedFactIDs))
    ELSE outcome.raised = "ValueError"

====